---------------------------- MODULE Spec2Model ----------------------------
(***************************************************************************)
(* The conversion pipeline of oracle-ingestor-lambda-parquet               *)
(* (src/oracle-ingestor-lambda-parquet/src/handler.rs): write_parquet      *)
(* turning the proof-of-coverage records of one source file into a beacon  *)
(* and a witness column batch, upload_parquet, cleanup_parquet_cache, and  *)
(* handle_history driving one such task per listed file through            *)
(* buffer_unordered(LOADER_WORKERS); Handler::run choosing by mode between *)
(* handle_history and handle_current, which takes one key from a trigger   *)
(* event.                                                                  *)
(*                                                                         *)
(* A task is one `async move` block of handle_history.  Its steps are the  *)
(* pieces of code between two suspension points (.await on the store, on   *)
(* the byte stream, on the S3 client); the synchronous file-system calls   *)
(* in between belong to the step that reaches them.                        *)
(***************************************************************************)
EXTENDS Integers, Sequences, FiniteSets, TLC

(***************************************************************************)
(* Bounds of the model.                                                    *)
(***************************************************************************)
\* messages read from the file of a single-file run
MaxMsgs == 2
\* witness reports (selected and unselected together) in one file
MaxWit == 3
\* files the listing of a many-file run returns
MaxFiles == 3

\* crate::LOADER_WORKERS, handler.rs:1 and :232; the crate root that sets it
\* is not among the sources, the value is the one of the spec's scenario C
LOADER_WORKERS == 2

(***************************************************************************)
(* Option<T>                                                               *)
(***************************************************************************)
None == [some |-> FALSE]
Some(x) == [some |-> TRUE, val |-> x]

(***************************************************************************)
(* str::parse::<i64>() on a string given as its sequence of characters:    *)
(* an optional sign, then one or more decimal digits; anything else is an  *)
(* error.  The strings of the model have at most three digits, so the      *)
(* overflow error of longer strings does not arise.                        *)
(***************************************************************************)
Digits == <<"0", "1", "2", "3", "4", "5", "6", "7", "8", "9">>
Digit(n) == Digits[n + 1]
IsDigit(c) == \E i \in 1..Len(Digits) : Digits[i] = c
DigitVal(c) == (CHOOSE i \in 1..Len(Digits) : Digits[i] = c) - 1

RECURSIVE DigitsValue(_, _)
DigitsValue(s, acc) ==
    IF s = <<>> THEN acc ELSE DigitsValue(Tail(s), 10 * acc + DigitVal(Head(s)))

ParseI64(s) ==
    LET signed == s # <<>> /\ Head(s) \in {"+", "-"}
        body   == IF signed THEN Tail(s) ELSE s
        good   == body # <<>> /\ \A i \in 1..Len(body) : IsDigit(body[i])
        mag    == IF good THEN DigitsValue(body, 0) ELSE 0
    IN  [ok  |-> good,
         val |-> IF signed /\ Head(s) = "-" THEN 0 - mag ELSE mag]

(***************************************************************************)
(* The schemas, in declaration order: name and physical type.              *)
(***************************************************************************)
Col(n, t) == [name |-> n, type |-> t]

BEACON_MSG_TYPE ==
    << Col("poc_id", "BYTE_ARRAY"), Col("ingest_time", "INT64"),
       Col("beacon_location", "INT64"), Col("pub_key", "BYTE_ARRAY"),
       Col("frequency", "INT64"), Col("channel", "INT32"),
       Col("tx_power", "INT32"), Col("timestamp", "INT64"),
       Col("tmst", "INT32") >>

WITNESS_MSG_TYPE ==
    << Col("poc_id", "BYTE_ARRAY"), Col("pub_key", "BYTE_ARRAY"),
       Col("ingest_time", "INT64"), Col("witness_location", "INT64"),
       Col("timestamp", "INT64"), Col("tmst", "INT32"),
       Col("signal", "INT32"), Col("snr", "INT32"),
       Col("frequency", "INT64"), Col("selected", "BOOLEAN") >>

(***************************************************************************)
(* The column buffers of write_parquet, by the names of its local Vecs.    *)
(***************************************************************************)
BeaconVecs ==
    << "poc_id", "ingest_time", "beacon_location", "pub_key", "frequency",
       "channel", "tx_power", "timestamp", "tmst" >>

WitnessVecs ==
    << "witness_poc_id", "witness_pub_key", "witness_ingest_time",
       "witness_location", "witness_timestamp", "witness_tmst",
       "witness_signal", "witness_snr", "witness_frequency", "selected" >>

Range(s) == {s[i] : i \in 1..Len(s)}

VecNames == Range(BeaconVecs) \cup Range(WitnessVecs)

\* handler.rs:291-310: every Vec starts empty
EmptyVecs == [v \in VecNames |-> <<>>]


(***************************************************************************)
(* The decoded records (helium_proto LoraPocV1) the model feeds to         *)
(* write_parquet.  A record is built from a shape: s selected and u        *)
(* unselected witness reports and at most one defect; every field value    *)
(* is made distinct from the record's tag (its place in the file), the     *)
(* witness's list and its place in the list, so that a row can be traced   *)
(* to its source.                                                          *)
(*    beacon_none             beacon_report is None                        *)
(*    beacon_badloc           beacon location is not an integer            *)
(*    beacon_noreport         beacon_report.report is None                 *)
(*    beacon_badloc_noreport  both of the two above                        *)
(*    sel_badloc, unsel_badloc      the first witness of that list has a   *)
(*                                  location that is not an integer        *)
(*    sel_noreport, unsel_noreport  the first witness of that list has     *)
(*                                  report None                            *)
(***************************************************************************)
Defects ==
    { "none", "beacon_none", "beacon_badloc", "beacon_noreport",
      "beacon_badloc_noreport", "sel_badloc", "unsel_badloc",
      "sel_noreport", "unsel_noreport" }

Shapes(room) ==
    { sh \in [s : 0..room, u : 0..room, defect : Defects] :
        /\ sh.s + sh.u <= room
        /\ sh.defect \in {"sel_badloc", "sel_noreport"} => sh.s >= 1
        /\ sh.defect \in {"unsel_badloc", "unsel_noreport"} => sh.u >= 1 }

\* LoraVerifiedWitnessReportV1 with its LoraWitnessReportReqV1
WitnessReport(tag, list, j, defect) ==
    LET base == 1000 * tag + (IF list = "sel" THEN 100 ELSE 200) + 10 * j
        hit  == j = 1
    IN  [ received_timestamp |-> base + 7,
          location |->
              IF hit /\ defect = "sel_badloc" /\ list = "sel"
                THEN <<"8", "c", "2">>
              ELSE IF hit /\ defect = "unsel_badloc" /\ list = "unsel"
                THEN <<>>
              ELSE IF list = "sel" THEN <<"7", Digit(j)>>
              ELSE <<"-", "4", Digit(j)>>,
          report |->
              IF hit /\ ((defect = "sel_noreport" /\ list = "sel")
                         \/ (defect = "unsel_noreport" /\ list = "unsel"))
                THEN None
                ELSE Some([ pub_key   |-> base + 1, timestamp |-> base + 2,
                            tmst      |-> base + 3, signal    |-> base + 4,
                            snr       |-> base + 5, frequency |-> base + 6 ]) ]

\* LoraValidBeaconReportV1 with its LoraBeaconReportReqV1
BeaconReport(tag, defect) ==
    LET base == 1000 * tag
    IN  [ received_timestamp |-> base + 1,
          location |->
              IF defect \in {"beacon_badloc", "beacon_badloc_noreport"}
                THEN <<"+">>
                ELSE <<"6", "3", Digit(tag)>>,
          report |->
              IF defect \in {"beacon_noreport", "beacon_badloc_noreport"}
                THEN None
                ELSE Some([ pub_key   |-> base + 2, frequency |-> base + 3,
                            channel   |-> base + 4, tx_power  |-> base + 5,
                            timestamp |-> base + 6, tmst      |-> base + 8 ]) ]

\* LoraPocV1
Poc(tag, sh) ==
    [ poc_id |-> tag,
      beacon_report |->
          IF sh.defect = "beacon_none" THEN None
          ELSE Some(BeaconReport(tag, sh.defect)),
      selected_witnesses |->
          [j \in 1..sh.s |-> WitnessReport(tag, "sel", j, sh.defect)],
      unselected_witnesses |->
          [j \in 1..sh.u |-> WitnessReport(tag, "unsel", j, sh.defect)] ]

(***************************************************************************)
(* What the byte stream yields for one message (handler.rs:312-314):       *)
(*    io_err   file_stream.next() yields Err                               *)
(*    garbage  bytes LoraPocV1::decode rejects                             *)
(*    poc      bytes decoding to the record `poc`                          *)
(***************************************************************************)
NoPoc == Poc(0, [s |-> 0, u |-> 0, defect |-> "none"])
IoErrMsg == [kind |-> "io_err", poc |-> NoPoc]
GarbageMsg == [kind |-> "garbage", poc |-> NoPoc]
PocMsg(p) == [kind |-> "poc", poc |-> p]

(***************************************************************************)
(* One push of write_parquet's loop body: the Vec it pushes to and what    *)
(* evaluating its argument gives: a value, an error returned by `?`, or    *)
(* a panic of unwrap() on None.                                            *)
(***************************************************************************)
Val(c, v) == [col |-> c, kind |-> "val", v |-> v]
Err(c) == [col |-> c, kind |-> "err", v |-> 0]
Panic(c) == [col |-> c, kind |-> "panic", v |-> 0]

\* poc.beacon_report.clone().unwrap().report.unwrap(): None at either level panics
BeaconInner(poc) ==
    IF poc.beacon_report.some THEN poc.beacon_report.val.report ELSE None

\* handler.rs:320: .location.parse::<i64>()?
BeaconLocationParseAsBug(poc) ==
    IF ~poc.beacon_report.some THEN Panic("beacon_location")
    ELSE Val("beacon_location",
             ParseI64(poc.beacon_report.val.location).val)

BeaconLocationPush(poc) ==
    IF ~poc.beacon_report.some THEN Panic("beacon_location")
    ELSE LET r == ParseI64(poc.beacon_report.val.location)
         IN  IF r.ok THEN Val("beacon_location", r.val)
             ELSE Err("beacon_location")

\* handler.rs:318-328, in the order of the code
BeaconPushes(poc) ==
    LET br == poc.beacon_report
        rp == BeaconInner(poc)
        Inner(c, f) == IF rp.some THEN Val(c, rp.val[f]) ELSE Panic(c)
    IN  << Val("poc_id", poc.poc_id),
           IF br.some THEN Val("ingest_time", br.val.received_timestamp)
                      ELSE Panic("ingest_time"),
           BeaconLocationPush(poc),
           Inner("pub_key", "pub_key"),
           Inner("frequency", "frequency"),
           Inner("channel", "channel"),
           Inner("tx_power", "tx_power"),
           Inner("timestamp", "timestamp"),
           Inner("tmst", "tmst") >>

\* handler.rs:333 and :345: witness.location.parse::<i64>().unwrap_or(0)
WitnessLocationAsErr(w) ==
    LET r == ParseI64(w.location)
    IN  IF r.ok THEN Val("witness_location", r.val) ELSE Err("witness_location")

WitnessLocationPush(w) ==
    LET r == ParseI64(w.location)
    IN  Val("witness_location", IF r.ok THEN r.val ELSE 0)

\* handler.rs:330-339 (flag TRUE) and :342-351 (flag FALSE)
WitnessPushes(poc, w, flag) ==
    LET Inner(c, f) ==
            IF w.report.some THEN Val(c, w.report.val[f]) ELSE Panic(c)
    IN  << Val("witness_poc_id", poc.poc_id),
           Inner("witness_pub_key", "pub_key"),
           Val("witness_ingest_time", w.received_timestamp),
           WitnessLocationPush(w),
           Inner("witness_timestamp", "timestamp"),
           Inner("witness_tmst", "tmst"),
           Inner("witness_signal", "signal"),
           Inner("witness_snr", "snr"),
           Inner("witness_frequency", "frequency"),
           Val("selected", flag) >>

RECURSIVE ListPushes(_, _, _)
ListPushes(poc, ws, flag) ==
    IF ws = <<>> THEN <<>>
    ELSE WitnessPushes(poc, Head(ws), flag) \o ListPushes(poc, Tail(ws), flag)

\* handler.rs:329 and :341: the two for loops.  The flag each loop pushes.
SelectedLoopFlag == TRUE

UnselectedLoopFlagCopied == TRUE

UnselectedLoopFlag == FALSE

\* handler.rs:318-352: every push of one loop iteration, in program order
RecordPushesSelectedOnly(poc) ==
    BeaconPushes(poc)
      \o ListPushes(poc, poc.selected_witnesses, SelectedLoopFlag)

RecordPushesUnselectedFirst(poc) ==
    BeaconPushes(poc)
      \o ListPushes(poc, poc.unselected_witnesses, UnselectedLoopFlag)
      \o ListPushes(poc, poc.selected_witnesses, SelectedLoopFlag)

RecordPushes(poc) ==
    BeaconPushes(poc)
      \o ListPushes(poc, poc.selected_witnesses, SelectedLoopFlag)
      \o ListPushes(poc, poc.unselected_witnesses, UnselectedLoopFlag)

\* The pushes run in order; the first error or panic ends the function with
\* the Vecs as they are then.
RECURSIVE RunPushes(_, _)
RunPushes(vecs, pushes) ==
    IF pushes = <<>> THEN [outcome |-> "ok", vecs |-> vecs]
    ELSE LET p == Head(pushes)
         IN  IF p.kind = "val"
               THEN RunPushes([vecs EXCEPT ![p.col] = Append(@, p.v)],
                              Tail(pushes))
               ELSE [outcome |-> p.kind, vecs |-> vecs]

\* handler.rs:315-317: `if poc.selected_witnesses.is_empty() { continue; }`
SkipsRecordNever(poc) == FALSE

SkipsRecord(poc) == poc.selected_witnesses = <<>>

\* handler.rs:313-352: one iteration of `while let Some(result) = ...`
LoopBody(vecs, msg) ==
    IF msg.kind \in {"io_err", "garbage"} THEN [outcome |-> "err", vecs |-> vecs]
    ELSE IF SkipsRecord(msg.poc) THEN [outcome |-> "ok", vecs |-> vecs]
    ELSE RunPushes(vecs, RecordPushes(msg.poc))

(***************************************************************************)
(* Serialization, handler.rs:355-504.  next_column() hands out the column  *)
(* writers of the schema's fields in declaration order; the code counts    *)
(* them (col_number) and the match arm of that number names the Vec to     *)
(* write and the type to write it as.  typed::<T>() panics when T is not   *)
(* the column's physical type; closing a column whose row count differs    *)
(* from the row group's is an error.                                       *)
(***************************************************************************)
Arm(v, t) == [vec |-> v, type |-> t]

\* handler.rs:359-418, arms 1..9
BeaconArmsSwapped ==
    << Arm("poc_id", "BYTE_ARRAY"), Arm("beacon_location", "INT64"),
       Arm("ingest_time", "INT64"), Arm("pub_key", "BYTE_ARRAY"),
       Arm("frequency", "INT64"), Arm("channel", "INT32"),
       Arm("tx_power", "INT32"), Arm("timestamp", "INT64"),
       Arm("tmst", "INT32") >>

BeaconArms ==
    << Arm("poc_id", "BYTE_ARRAY"), Arm("ingest_time", "INT64"),
       Arm("beacon_location", "INT64"), Arm("pub_key", "BYTE_ARRAY"),
       Arm("frequency", "INT64"), Arm("channel", "INT32"),
       Arm("tx_power", "INT32"), Arm("timestamp", "INT64"),
       Arm("tmst", "INT32") >>

\* handler.rs:429-499, arms 1..10
WitnessArms ==
    << Arm("witness_poc_id", "BYTE_ARRAY"), Arm("witness_pub_key", "BYTE_ARRAY"),
       Arm("witness_ingest_time", "INT64"), Arm("witness_location", "INT64"),
       Arm("witness_timestamp", "INT64"), Arm("witness_tmst", "INT32"),
       Arm("witness_signal", "INT32"), Arm("witness_snr", "INT32"),
       Arm("witness_frequency", "INT64"), Arm("selected", "BOOLEAN") >>

\* the values the arm of col_number k writes; `_e => warn` writes nothing
ArmData(arms, vecs, k) == IF k <= Len(arms) THEN vecs[arms[k].vec] ELSE <<>>

\* the first column at which the walk stops, Len(schema) + 1 when none does
FirstBadColumn(schema, arms, vecs) ==
    LET bad(k) == \/ k <= Len(arms) /\ arms[k].type # schema[k].type
                  \/ Len(ArmData(arms, vecs, k)) # Len(ArmData(arms, vecs, 1))
        stops  == {k \in 1..Len(schema) : bad(k)}
    IN  IF stops = {} THEN Len(schema) + 1
        ELSE CHOOSE k \in stops : \A j \in stops : k <= j

\* one `while let Some(mut col_writer) = ..next_column()?` loop
WriteColumns(schema, arms, vecs) ==
    LET stop == FirstBadColumn(schema, arms, vecs)
    IN  [ outcome |->
              IF stop > Len(schema) THEN "ok"
              ELSE IF stop <= Len(arms) /\ arms[stop].type # schema[stop].type
                THEN "panic"
              ELSE "err",
          cols |-> [k \in 1..(stop - 1) |->
                      [ name   |-> schema[k].name,
                        type   |-> schema[k].type,
                        values |-> ArmData(arms, vecs, k) ]] ]

(***************************************************************************)
(* Names: the source key `<type>.<stamp>.<ext>` is kept as its sequence of *)
(* '.'-separated tokens, a local path as its directory and the tokens of   *)
(* its file name, an object key as its folder and file name.               *)
(***************************************************************************)
StampIsType(key) == key[1]

\* handler.rs:206: file_info.key.split('.').collect::<Vec<_>>()[1]
Stamp(key) == key[2]

\* handler.rs:209-213: format!("/{}/valid_beacons.{}.parquet", cache, stamp)
BeaconPath(key) ==
    [dir |-> "cache", name |-> <<"valid_beacons", Stamp(key), "parquet">>]

WitnessPath(key) ==
    [dir |-> "cache", name |-> <<"valid_witnesses", Stamp(key), "parquet">>]

\* handler.rs:248-252: format!("{}/{}", folder_name, file_path.file_name())
ObjectKey(folder_name, file_path) ==
    [folder |-> folder_name, name |-> file_path.name]

\* a local file: absent, or the columns written to it so far and whether
\* its writer was closed
NoFile == [exists |-> FALSE, cols |-> <<>>, closed |-> FALSE]
NewFile == [exists |-> TRUE, cols |-> <<>>, closed |-> FALSE]
Written(cols, closed) == [exists |-> TRUE, cols |-> cols, closed |-> closed]

\* the source keys a listing may return: iot_poc.<n>.gz
SourceKey(n) == <<"iot_poc", Digit(n), "gz">>

(***************************************************************************)
(* The trigger event, handler.rs:135-162.  The event is a JSON value; of   *)
(* it the code reads Records, and of Records[0] the object key.  Indexing  *)
(* a JSON value by a missing member or position yields null.               *)
(***************************************************************************)
\* a JSON value that is null or a string, the string as its tokens
JsonNull == [is_null |-> TRUE, tokens |-> <<>>]
JsonString(tokens) == [is_null |-> FALSE, tokens |-> tokens]

\* handler.rs:147: Value::to_string() writes the value as JSON text: null
\* for null, and a string inside its double quotes
Quote == "\""
ValueToString(v) ==
    IF v.is_null THEN <<"null">>
    ELSE IF Len(v.tokens) = 1 THEN <<Quote \o v.tokens[1] \o Quote>>
    ELSE <<Quote \o Head(v.tokens)>>
           \o SubSeq(v.tokens, 2, Len(v.tokens) - 1)
           \o <<v.tokens[Len(v.tokens)] \o Quote>>

\* the names FileType::from_str knows; the variants are those the sources
\* match on (oracle-file-to-parquet/src/main.rs:74, 199, 376, 544)
FileTypeNames ==
    {"gateway_reward_share", "iot_beacon_ingest_report",
     "iot_witness_ingest_report", "iot_poc"}

\* handler.rs:162: FileType::from_str(prefix)
FileTypeFromStr(prefix) ==
    [ok |-> prefix \in FileTypeNames, val |-> prefix]

\* the events Handler::run may be called with
EventKeys ==
    {JsonNull} \cup
    {JsonString(t) : t \in {SourceKey(1), <<"iot_poc">>,
                            <<"iot_beacon_ingest_report", "1", "gz">>,
                            <<"bogus", "1", "gz">>}}

Events ==
    {None,
     Some([records_null |-> TRUE, Records |-> <<>>]),
     Some([records_null |-> FALSE, Records |-> <<>>])}
      \cup {Some([records_null |-> FALSE, Records |-> <<[key |-> k]>>]) :
               k \in EventKeys}
      \cup {Some([records_null |-> FALSE,
                  Records |-> <<[key |-> k], [key |-> l]>>]) :
               k \in EventKeys, l \in EventKeys}

RecordKeyOfLast(e) ==
    IF e.Records = <<>> THEN JsonNull ELSE e.Records[Len(e.Records)].key

\* handler.rs:143-147: event["Records"][0]["s3"]["object"]["key"]
RecordKey(e) == IF e.Records = <<>> THEN JsonNull ELSE e.Records[1].key

(***************************************************************************)
(* Errors.  Every error of the pipeline is an anyhow::Error made by `?`    *)
(* from the error of the failing call, or by bail! from a fixed message;   *)
(* no call adds a context to it.  An error is kept as the step it comes    *)
(* from and the source key its text names, if it names one.                *)
(***************************************************************************)
NoError == [kind |-> "none", key |-> None]
AnyhowError(c) == [kind |-> c, key |-> None]

(***************************************************************************)
(* State.                                                                  *)
(***************************************************************************)
VARIABLES
    mode,        \* handler.rs:112 self.mode: "Current" or "Historical"
    event,       \* the event Handler::run is called with, if any
    store_keys,  \* the keys list_all finds in the source store, in order
    feed,        \* what the source files are made of: see Feed
    hpc,         \* where Handler::run and the handler it calls are
    hres,        \* what the handler, and Handler::run with it, returned
    herr,        \* the error it returned, if it returned one
    file_list,   \* handler.rs:200 file_list
    next_file,   \* how many items buffer_unordered has taken from `tasks`
    tpc,         \* per task: where the async block is
    tres,        \* per task: the Result the async block returned
    tcause,      \* per task: the step whose failure ended it, if one did
    stream,      \* per task: the messages file_stream has yielded so far
    vecs,        \* per task: the Vecs of write_parquet
    fs,          \* the local file system, by path
    s3,          \* the output bucket, by object key
    crashed      \* a panic has unwound handle_history

vars ==
    << mode, event, store_keys, feed, hpc, hres, herr, file_list, next_file,
       tpc, tres, tcause, stream, vecs, fs, s3, crashed >>

Tasks == 1..Len(store_keys)

AllPaths ==
    {BeaconPath(store_keys[i]) : i \in Tasks}
      \cup {WitnessPath(store_keys[i]) : i \in Tasks}

AllObjectKeys ==
    {ObjectKey(f, p) : f \in {"valid_beacon", "valid_witness"}, p \in AllPaths}

NoObject == [exists |-> FALSE, body |-> <<>>]

\* The records in the files of a many-file run: such a file is empty or
\* fails at its first message (what a well-formed file is turned into is
\* the subject of the one-file runs).
HistShapes ==
    [s : {1}, u : {0}, defect : {"beacon_none", "beacon_badloc"}]

RECURSIVE WitUsed(_)
WitUsed(st) ==
    IF st = <<>> THEN 0
    ELSE Len(Head(st).poc.selected_witnesses)
           + Len(Head(st).poc.unselected_witnesses) + WitUsed(Tail(st))

\* the messages file_stream.next() may yield to task i now
Feed(i) ==
    {IoErrMsg, GarbageMsg}
      \cup { PocMsg(Poc(Len(stream[i]) + 1, sh)) :
               sh \in feed.shapes \cap Shapes(feed.room - WitUsed(stream[i])) }

InitRun ==
    /\ hpc = "run"
    /\ hres = "none"
    /\ herr = NoError
    /\ file_list = <<>>
    /\ next_file = 1
    /\ tpc = [i \in Tasks |-> "idle"]
    /\ tres = [i \in Tasks |-> "none"]
    /\ tcause = [i \in Tasks |-> "none"]
    /\ stream = [i \in Tasks |-> <<>>]
    /\ vecs = [i \in Tasks |-> EmptyVecs]
    /\ fs = [p \in AllPaths |-> NoFile]
    /\ s3 = [k \in AllObjectKeys |-> NoObject]
    /\ crashed = FALSE

\* a window holding one file, of any content within MaxMsgs and MaxWit
InitOneFile ==
    /\ mode = "Historical" /\ event = None
    /\ store_keys = <<SourceKey(1)>>
    /\ feed = [maxlen |-> MaxMsgs, room |-> MaxWit, shapes |-> Shapes(MaxWit)]
    /\ InitRun

\* a window holding up to MaxFiles files of HistShapes records
InitManyFiles ==
    /\ mode = "Historical" /\ event = None
    /\ store_keys \in {[i \in 1..n |-> SourceKey(i)] : n \in 0..MaxFiles}
    /\ feed = [maxlen |-> MaxMsgs, room |-> MaxWit, shapes |-> HistShapes]
    /\ InitRun

\* a trigger invocation; the bucket holds the file SourceKey(1)
InitCurrent ==
    /\ mode = "Current" /\ event \in Events
    /\ store_keys = <<SourceKey(1)>>
    /\ feed = [maxlen |-> MaxMsgs, room |-> MaxWit, shapes |-> Shapes(MaxWit)]
    /\ InitRun

Init == InitOneFile \/ InitManyFiles \/ InitCurrent

(***************************************************************************)
(* Handler::run, handler.rs:111-125                                        *)
(***************************************************************************)
\* an error leaves the handler and, through the `?` of run, run itself
ReturnErrAsSuccess(c) ==
    /\ hpc' = "returned"
    /\ hres' = "Ok"
    /\ herr' = AnyhowError(c)

ReturnErr(c) ==
    /\ hpc' = "returned"
    /\ hres' = "Err"
    /\ herr' = AnyhowError(c)

\* handler.rs:112-122: match self.mode
Run ==
    /\ ~crashed /\ hpc = "run"
    /\ IF mode = "Historical"
         THEN hpc' = "list_all" /\ hres' = hres /\ herr' = herr
       ELSE IF event.some
         THEN hpc' = "handle_current" /\ hres' = hres /\ herr' = herr
       ELSE ReturnErr("no_event")
    /\ UNCHANGED << mode, event, store_keys, feed,
                    file_list, next_file, tpc, tres, tcause, stream, vecs,
                    fs, s3, crashed >>

\* cli/current.rs:39-42 handler_fn: handler.run(Some(event)).await?; Ok(())
HandlerFn(run_result) == IF run_result = "Err" THEN "Err" ELSE "Ok"

(***************************************************************************)
(* handle_current, handler.rs:127-190                                      *)
(***************************************************************************)
\* handler.rs:135-171: the event is taken apart and the key's file type
\* decides what handle_current does
Decide(e) ==
    LET key == ValueToString(RecordKey(e))
        prefix == Head(key)
        file_type == FileTypeFromStr(prefix)
    IN  IF e.records_null THEN [step |-> "err", cause |-> "validation"]
        ELSE IF ~file_type.ok THEN [step |-> "err", cause |-> "file_type"]
        ELSE IF file_type.val # "iot_poc"
          THEN [step |-> "no_op", cause |-> "none"]
        ELSE IF Len(key) < 2 THEN [step |-> "panic", cause |-> "stamp"]
        ELSE [step |-> "convert", cause |-> "none"]

\* handler.rs:135-173, up to store.get(key).await.  On iot_poc the per-file
\* steps run as the one task of the invocation, on the key as the code
\* holds it.
HandleCurrent ==
    /\ ~crashed /\ hpc = "handle_current"
    /\ LET d == Decide(event.val)
       IN  CASE d.step = "err" ->
                  /\ ReturnErr(d.cause)
                  /\ UNCHANGED << file_list, next_file, tpc, crashed >>
             [] d.step = "no_op" ->
                  /\ hpc' = "returned" /\ hres' = "Ok" /\ herr' = herr
                  /\ UNCHANGED << file_list, next_file, tpc, crashed >>
             [] d.step = "panic" ->
                  /\ crashed' = TRUE
                  /\ UNCHANGED << hpc, hres, herr, file_list, next_file, tpc >>
             [] OTHER ->
                  \E r \in {"ok", "from_settings_err"} :
                    IF r = "ok"
                      THEN /\ file_list' =
                                <<ValueToString(RecordKey(event.val))>>
                           /\ next_file' = 2
                           /\ tpc' = [tpc EXCEPT ![1] = "get"]
                           /\ hpc' = "current_task"
                           /\ UNCHANGED << hres, herr, crashed >>
                      ELSE /\ ReturnErr("from_settings")
                           /\ UNCHANGED << file_list, next_file, tpc, crashed >>
    /\ UNCHANGED << mode, event, store_keys, feed,
                    tres, tcause, stream, vecs, fs, s3 >>

(***************************************************************************)
(* handle_history, handler.rs:192-237                                      *)
(***************************************************************************)
\* handler.rs:200-203: self.store.list_all(..).await?
ListAll ==
    /\ ~crashed /\ hpc = "list_all"
    /\ \E r \in {"ok", "err"} :
         IF r = "ok"
           THEN /\ file_list' = store_keys
                /\ hpc' = "buffer_unordered"
                /\ hres' = hres /\ herr' = herr
           ELSE /\ file_list' = file_list
                /\ ReturnErr("list_all")
    /\ UNCHANGED << mode, event, store_keys, feed,
                    next_file, tpc, tres, tcause, stream, vecs, fs, s3,
                    crashed >>

InFlight == {i \in Tasks : tpc[i] \in {"get", "next", "put_beacon", "put_witness"}}

\* handler.rs:231-232: buffer_unordered takes the next future from
\* stream::iter(tasks) while fewer than LOADER_WORKERS are in flight
HasRoomUnbounded == TRUE

HasRoom == Cardinality(InFlight) < LOADER_WORKERS

DispatchSkipping ==
    /\ ~crashed /\ hpc = "buffer_unordered"
    /\ next_file <= Len(file_list)
    /\ HasRoom
    /\ tpc' = [tpc EXCEPT ![next_file] = "get"]
    /\ next_file' = next_file + 2
    /\ UNCHANGED << mode, event, store_keys, feed,
                    hpc, hres, herr, file_list, tres, tcause, stream, vecs, fs,
                    s3,
                    crashed >>

\* the future starts: handler.rs:206-215, up to self.store.get(..).await
Dispatch ==
    /\ ~crashed /\ hpc = "buffer_unordered"
    /\ next_file <= Len(file_list)
    /\ HasRoom
    /\ tpc' = [tpc EXCEPT ![next_file] = "get"]
    /\ next_file' = next_file + 1
    /\ UNCHANGED << mode, event, store_keys, feed,
                    hpc, hres, herr, file_list, tres, tcause, stream, vecs, fs,
                    s3,
                    crashed >>

\* the task returns r from its async block
Finish(i, r) ==
    /\ tpc' = [tpc EXCEPT ![i] = "done"]
    /\ tres' = [tres EXCEPT ![i] = r]

\* the step c of the task fails and its `?` returns the error
Fail(i, c) ==
    /\ Finish(i, "Err")
    /\ tcause' = [tcause EXCEPT ![i] = c]

\* the task panics: buffer_unordered polls its futures on the caller's
\* stack, so the panic unwinds handle_history and every other task with it
Unwind(i) ==
    /\ tpc' = [tpc EXCEPT ![i] = "panicked"]
    /\ tres' = tres
    /\ crashed' = TRUE

\* the step c of the task panics
PanicAt(i, c) ==
    /\ Unwind(i)
    /\ tcause' = [tcause EXCEPT ![i] = c]

\* handler.rs:215 store.get(..).await? returns; on Ok write_parquet starts:
\* handler.rs:276-310 up to the first file_stream.next().await
GetDone(i) ==
    /\ ~crashed /\ tpc[i] = "get"
    /\ \E r \in {"ok", "get_err", "beacon_create_err", "witness_create_err"} :
         LET bp == BeaconPath(file_list[i])
             wp == WitnessPath(file_list[i])
         IN  /\ fs' = CASE r = "get_err" -> fs
                        [] r = "beacon_create_err" -> fs
                        [] r = "witness_create_err" ->
                             [fs EXCEPT ![bp] = NewFile]
                        [] OTHER ->
                             [fs EXCEPT ![bp] = NewFile, ![wp] = NewFile]
             /\ CASE r = "ok" ->
                       /\ tpc' = [tpc EXCEPT ![i] = "next"]
                       /\ tres' = tres /\ tcause' = tcause
                  [] r = "get_err" -> Fail(i, "get")
                  [] OTHER -> Fail(i, "create")
    /\ UNCHANGED << mode, event, store_keys, feed,
                    hpc, hres, herr, file_list, next_file, stream, vecs, s3,
                    crashed >>

\* the step of the loop body that an error or a panic on msg comes from
LoopCause(msg, outcome) ==
    CASE msg.kind = "io_err" -> "read"
      [] msg.kind = "garbage" -> "decode"
      [] outcome = "err" -> "location"
      [] OTHER -> "missing_field"

\* handler.rs:312-353: file_stream.next().await yields a message and the
\* loop body runs on it
NextMessage(i) ==
    /\ ~crashed /\ tpc[i] = "next"
    /\ Len(stream[i]) < feed.maxlen
    /\ \E msg \in Feed(i) :
         LET r == LoopBody(vecs[i], msg)
         IN  /\ stream' = [stream EXCEPT ![i] = Append(@, msg)]
             /\ vecs' = [vecs EXCEPT ![i] = r.vecs]
             /\ CASE r.outcome = "ok" ->
                       /\ tpc' = tpc /\ tres' = tres /\ tcause' = tcause
                       /\ crashed' = crashed
                  [] r.outcome = "err" ->
                       /\ Fail(i, LoopCause(msg, "err")) /\ crashed' = crashed
                  [] OTHER -> PanicAt(i, LoopCause(msg, "panic"))
    /\ UNCHANGED << mode, event, store_keys, feed,
                    hpc, hres, herr, file_list, next_file, fs, s3 >>

\* handler.rs:312 file_stream.next().await yields None; handler.rs:355-505
\* write both row groups and close the writers.  io is where the file
\* system fails, if it does.
EndOfStream(i) ==
    /\ ~crashed /\ tpc[i] = "next"
    /\ \E io \in {"ok", "beacon_io", "witness_io"} :
         LET bp == BeaconPath(file_list[i])
             wp == WitnessPath(file_list[i])
             bw == WriteColumns(BEACON_MSG_TYPE, BeaconArms, vecs[i])
             ww == WriteColumns(WITNESS_MSG_TYPE, WitnessArms, vecs[i])
         IN  IF io = "beacon_io"
               THEN /\ fs' = fs
                    /\ Fail(i, "write") /\ crashed' = crashed
             ELSE IF bw.outcome # "ok"
               THEN /\ fs' = [fs EXCEPT ![bp] = Written(bw.cols, FALSE)]
                    /\ IF bw.outcome = "panic" THEN PanicAt(i, "write")
                       ELSE Fail(i, "write") /\ crashed' = crashed
             ELSE IF io = "witness_io"
               THEN /\ fs' = [fs EXCEPT ![bp] = Written(bw.cols, TRUE)]
                    /\ Fail(i, "write") /\ crashed' = crashed
             ELSE IF ww.outcome # "ok"
               THEN /\ fs' = [fs EXCEPT ![bp] = Written(bw.cols, TRUE),
                                        ![wp] = Written(ww.cols, FALSE)]
                    /\ IF ww.outcome = "panic" THEN PanicAt(i, "write")
                       ELSE Fail(i, "write") /\ crashed' = crashed
             ELSE /\ fs' = [fs EXCEPT ![bp] = Written(bw.cols, TRUE),
                                      ![wp] = Written(ww.cols, TRUE)]
                  /\ tpc' = [tpc EXCEPT ![i] = "put_beacon"]
                  /\ tres' = tres /\ tcause' = tcause /\ crashed' = crashed
    /\ UNCHANGED << mode, event, store_keys, feed,
                    hpc, hres, herr, file_list, next_file, stream, vecs, s3 >>

PutObjectUnderBeacon(folder_name, file_path) ==
    [s3 EXCEPT ![ObjectKey("valid_beacon", file_path)] =
        [exists |-> TRUE, body |-> fs[file_path].cols]]

\* handler.rs:247-268 upload_parquet: read the file, put it under
\* folder_name/<file name>
PutObject(folder_name, file_path) ==
    [s3 EXCEPT ![ObjectKey(folder_name, file_path)] =
        [exists |-> TRUE, body |-> fs[file_path].cols]]

UploadBeaconGoesOn(i) ==
    /\ ~crashed /\ tpc[i] = "put_beacon"
    /\ \E r \in {"ok", "err"} :
         LET bp == BeaconPath(file_list[i])
         IN  /\ s3' = IF r = "ok" /\ fs[bp].exists
                        THEN PutObject("valid_beacon", bp) ELSE s3
             /\ tpc' = [tpc EXCEPT ![i] = "put_witness"]
             /\ tres' = tres /\ tcause' = tcause
    /\ UNCHANGED << mode, event, store_keys, feed,
                    hpc, hres, herr, file_list, next_file, stream, vecs, fs,
                    crashed >>

\* handler.rs:222: upload_parquet("valid_beacon", beacon_path).await?
UploadBeacon(i) ==
    /\ ~crashed /\ tpc[i] = "put_beacon"
    /\ \E r \in {"ok", "err"} :
         LET bp == BeaconPath(file_list[i])
         IN  IF ~fs[bp].exists
               THEN /\ s3' = s3
                    /\ Fail(i, "body_beacon")
             ELSE IF r = "ok"
               THEN /\ s3' = PutObject("valid_beacon", bp)
                    /\ tpc' = [tpc EXCEPT ![i] = "put_witness"]
                    /\ tres' = tres /\ tcause' = tcause
             ELSE /\ s3' = s3
                  /\ Fail(i, "put_beacon")
    /\ UNCHANGED << mode, event, store_keys, feed,
                    hpc, hres, herr, file_list, next_file, stream, vecs, fs,
                    crashed >>

\* handler.rs:239-245 cleanup_parquet_cache; rm is where remove_file fails,
\* if it does
Cleanup(bp, wp, rm) ==
    IF rm = "beacon_rm_err" \/ ~fs[bp].exists THEN fs
    ELSE IF rm = "witness_rm_err" \/ ~fs[wp].exists
      THEN [fs EXCEPT ![bp] = NoFile]
    ELSE [fs EXCEPT ![bp] = NoFile, ![wp] = NoFile]

CleanupOk(bp, wp, rm) == rm = "ok" /\ fs[bp].exists /\ fs[wp].exists

UploadWitnessCleansAnyway(i) ==
    /\ ~crashed /\ tpc[i] = "put_witness"
    /\ \E r \in {"ok", "err"}, rm \in {"ok", "beacon_rm_err", "witness_rm_err"} :
         LET bp == BeaconPath(file_list[i])
             wp == WitnessPath(file_list[i])
         IN  /\ s3' = IF r = "ok" THEN PutObject("valid_witness", wp) ELSE s3
             /\ fs' = Cleanup(bp, wp, rm)
             /\ IF r = "ok" /\ CleanupOk(bp, wp, rm)
                  THEN Finish(i, "Ok") /\ tcause' = tcause
                  ELSE Fail(i, IF r = "ok" THEN "cleanup" ELSE "put_witness")
    /\ UNCHANGED << mode, event, store_keys, feed,
                    hpc, hres, herr, file_list, next_file, stream, vecs,
                    crashed >>

\* handler.rs:223-228: upload_parquet("valid_witness", witness_path).await?
\* and then cleanup_parquet_cache, which has no suspension point of its own
UploadWitness(i) ==
    /\ ~crashed /\ tpc[i] = "put_witness"
    /\ \E r \in {"ok", "err"}, rm \in {"ok", "beacon_rm_err", "witness_rm_err"} :
         LET bp == BeaconPath(file_list[i])
             wp == WitnessPath(file_list[i])
         IN  IF r = "ok" /\ fs[wp].exists
               THEN /\ s3' = PutObject("valid_witness", wp)
                    /\ fs' = Cleanup(bp, wp, rm)
                    /\ IF CleanupOk(bp, wp, rm)
                         THEN Finish(i, "Ok") /\ tcause' = tcause
                         ELSE Fail(i, "cleanup")
               ELSE /\ rm = "ok"
                    /\ s3' = s3 /\ fs' = fs
                    /\ Fail(i, IF fs[wp].exists THEN "put_witness"
                               ELSE "body_witness")
    /\ UNCHANGED << mode, event, store_keys, feed,
                    hpc, hres, herr, file_list, next_file, stream, vecs,
                    crashed >>

\* what the handler returns once its tasks are done: handle_history drops
\* `_results` (handler.rs:231-236), handle_current has returned the error
\* of its steps by `?` (handler.rs:174-186) or comes to Ok(()) (:189)
Result == IF hpc = "buffer_unordered" THEN "Ok" ELSE tres[1]

\* the error returned with it: the one the `?` of the failed step made
ResultError ==
    IF Result = "Ok" THEN herr ELSE AnyhowError(tcause[1])

ReturnEarly ==
    /\ ~crashed /\ hpc \in {"buffer_unordered", "current_task"}
    /\ next_file > Len(file_list)
    /\ hpc' = "returned"
    /\ hres' = Result
    /\ herr' = ResultError
    /\ UNCHANGED << mode, event, store_keys, feed,
                    file_list, next_file, tpc, tres, tcause, stream, vecs,
                    fs, s3, crashed >>

ReturnFirstError ==
    /\ ~crashed /\ hpc \in {"buffer_unordered", "current_task"}
    /\ next_file > Len(file_list)
    /\ \A i \in Tasks : tpc[i] = "done"
    /\ hpc' = "returned"
    /\ hres' = IF \E i \in Tasks : tres[i] = "Err" THEN "Err" ELSE "Ok"
    /\ herr' = herr
    /\ UNCHANGED << mode, event, store_keys, feed,
                    file_list, next_file, tpc, tres, tcause, stream, vecs,
                    fs, s3, crashed >>

\* handler.rs:231-236: collect() has every result, Ok(()); handler.rs:
\* 174-189: the one task of handle_current is done
Return ==
    /\ ~crashed /\ hpc \in {"buffer_unordered", "current_task"}
    /\ next_file > Len(file_list)
    /\ \A i \in Tasks : tpc[i] = "done"
    /\ hpc' = "returned"
    /\ hres' = Result
    /\ herr' = ResultError
    /\ UNCHANGED << mode, event, store_keys, feed,
                    file_list, next_file, tpc, tres, tcause, stream, vecs,
                    fs, s3, crashed >>

(***************************************************************************)
(* A second conversion of the same source file, after the run that         *)
(* converted it is over: write_parquet as a whole (handler.rs:270-506),    *)
(* on the messages the first conversion read and without a failure of the  *)
(* file system.                                                            *)
(***************************************************************************)
CreateFileKeeping(f) == IF f.exists THEN f ELSE NewFile

\* handler.rs:280-281 fs::File::create on the path whose file is f: a file
\* that exists is truncated
CreateFile(f) == NewFile

\* handler.rs:312-353: the loop over the messages, up to the first that
\* fails
RECURSIVE RunLoop(_, _)
RunLoop(v, msgs) ==
    IF msgs = <<>> THEN [outcome |-> "ok", vecs |-> v]
    ELSE LET r == LoopBody(v, Head(msgs))
         IN  IF r.outcome # "ok" THEN r ELSE RunLoop(r.vecs, Tail(msgs))

\* handler.rs:270-506 on the file system f; the writers write after what
\* the created files hold
WriteParquet(f, key, msgs) ==
    LET bp == BeaconPath(key)
        wp == WitnessPath(key)
        created == [f EXCEPT ![bp] = CreateFile(f[bp]),
                             ![wp] = CreateFile(f[wp])]
        loop == RunLoop(EmptyVecs, msgs)
        bw == WriteColumns(BEACON_MSG_TYPE, BeaconArms, loop.vecs)
        ww == WriteColumns(WITNESS_MSG_TYPE, WitnessArms, loop.vecs)
        b_cols == created[bp].cols \o bw.cols
        w_cols == created[wp].cols \o ww.cols
    IN  IF loop.outcome # "ok"
          THEN [outcome |-> loop.outcome, vecs |-> loop.vecs, fs |-> created]
        ELSE IF bw.outcome # "ok"
          THEN [outcome |-> bw.outcome, vecs |-> loop.vecs,
                fs |-> [created EXCEPT ![bp] = Written(b_cols, FALSE)]]
        ELSE IF ww.outcome # "ok"
          THEN [outcome |-> ww.outcome, vecs |-> loop.vecs,
                fs |-> [created EXCEPT ![bp] = Written(b_cols, TRUE),
                                       ![wp] = Written(w_cols, FALSE)]]
        ELSE [outcome |-> "ok", vecs |-> loop.vecs,
              fs |-> [created EXCEPT ![bp] = Written(b_cols, TRUE),
                                     ![wp] = Written(w_cols, TRUE)]]

\* the file of task i is converted once more
ConvertAgain(i) ==
    /\ hpc = "returned" \/ crashed
    /\ tpc[i] \in {"done", "panicked"}
    /\ LET r == WriteParquet(fs, file_list[i], stream[i])
       IN  /\ fs' = r.fs
           /\ vecs' = [vecs EXCEPT ![i] = r.vecs]
    /\ tpc' = [tpc EXCEPT ![i] = "again"]
    /\ UNCHANGED << mode, event, store_keys, feed,
                    hpc, hres, herr, file_list, next_file, tres, tcause,
                    stream, s3, crashed >>

\* the steps of task i
TaskStep(i) ==
    \/ GetDone(i)
    \/ NextMessage(i)
    \/ EndOfStream(i)
    \/ UploadBeacon(i)
    \/ UploadWitness(i)

Next ==
    \/ Run
    \/ HandleCurrent
    \/ ListAll
    \/ Dispatch
    \/ \E i \in Tasks : GetDone(i)
    \/ \E i \in Tasks : NextMessage(i)
    \/ \E i \in Tasks : EndOfStream(i)
    \/ \E i \in Tasks : UploadBeacon(i)
    \/ \E i \in Tasks : UploadWitness(i)
    \/ Return

Spec == Init /\ [][Next]_vars

\* a run over one file, or a trigger invocation, and second conversions
InitTwice == InitOneFile \/ InitCurrent

NextTwice ==
    \/ Next
    \/ \E i \in Tasks : ConvertAgain(i)

SpecTwice == InitTwice /\ [][NextTwice]_vars

\* the keys of a listing whose keys need not differ in their stamps
AnyKeys == {SourceKey(1), <<"iot_poc", "1", "bak">>, SourceKey(2)}

\* a window holding two files with different keys
InitAnyKeys ==
    /\ mode = "Historical" /\ event = None
    /\ store_keys \in {kl \in AnyKeys \X AnyKeys : kl[1] # kl[2]}
    /\ feed = [maxlen |-> MaxMsgs, room |-> MaxWit, shapes |-> HistShapes]
    /\ InitRun

InitAnyRun == InitAnyKeys \/ InitCurrent

SpecAnyKeys == InitAnyRun /\ [][Next]_vars

\* The run does not stop while a step can be taken: the executor polls a
\* future that is ready, and each I/O step completes.
FairSpec == Spec /\ WF_vars(Next)

(***************************************************************************)
(* What the properties speak of.  These are read off the source records    *)
(* in `stream`, not off the model of the loop.                             *)
(***************************************************************************)
Last(s) == s[Len(s)]
Front(s) == SubSeq(s, 1, Len(s) - 1)

\* the loop of task i has run on every message of stream[i] without error
LoopHealthy(i) == tpc[i] \in {"next", "put_beacon", "put_witness"}

\* both files of task i were written and closed, and nothing has touched
\* them since
JustConverted(i) == tpc[i] = "put_beacon"

IsContributing(msg) == msg.kind = "poc" /\ msg.poc.selected_witnesses # <<>>

\* the records of st with a non-empty selected-witness list, in order
RECURSIVE Contributing(_)
Contributing(st) ==
    IF st = <<>> THEN <<>>
    ELSE IF IsContributing(Head(st))
      THEN <<Head(st).poc>> \o Contributing(Tail(st))
    ELSE Contributing(Tail(st))

\* the witness reports of the contributing records of st, each with the
\* record and the list it is from, in the order the claims give
RECURSIVE Tagged(_, _, _)
Tagged(poc, ws, from) ==
    IF ws = <<>> THEN <<>>
    ELSE <<[poc |-> poc, w |-> Head(ws), from |-> from]>>
           \o Tagged(poc, Tail(ws), from)

RECURSIVE SourceWitnesses(_)
SourceWitnesses(pocs) ==
    IF pocs = <<>> THEN <<>>
    ELSE Tagged(Head(pocs), Head(pocs).selected_witnesses, "selected")
           \o Tagged(Head(pocs), Head(pocs).unselected_witnesses, "unselected")
           \o SourceWitnesses(Tail(pocs))

AllLen(v, names, n) == \A c \in Range(names) : Len(v[c]) = n

\* a written file holds n rows in each of its k columns
FileRows(f, k, n) ==
    /\ f.exists /\ f.closed
    /\ Len(f.cols) = k
    /\ \A c \in 1..Len(f.cols) : Len(f.cols[c].values) = n

FileColumn(f, name) ==
    LET k == CHOOSE c \in 1..Len(f.cols) : f.cols[c].name = name
    IN  f.cols[k].values

(***************************************************************************)
(* C1.  A step of write_parquet's loop that reads a decoded record whose   *)
(* selected-witness list is empty leaves every column buffer, beacon and   *)
(* witness, as it was, whatever the record's unselected witnesses and      *)
(* beacon report are, and the task goes on to await the next message.      *)
(***************************************************************************)
C1_EmptySelectedAddsNoRow ==
    [][ \A i \in Tasks :
          ( /\ stream'[i] # stream[i]
            /\ Last(stream'[i]).kind = "poc"
            /\ Last(stream'[i]).poc.selected_witnesses = <<>> )
          => /\ vecs'[i] = vecs[i]
             /\ tpc'[i] = "next"
             /\ ~crashed' ]_vars

\* a record with no selected witness, an unselected one and no beacon report
\* was read, and the record after it gave the file's only rows
C1_Witness ==
    \E i \in Tasks :
        /\ Len(stream[i]) = 2
        /\ stream[i][1].kind = "poc"
        /\ stream[i][1].poc.selected_witnesses = <<>>
        /\ stream[i][1].poc.unselected_witnesses # <<>>
        /\ ~stream[i][1].poc.beacon_report.some
        /\ JustConverted(i)
        /\ vecs[i]["poc_id"] = <<2>>

(***************************************************************************)
(* C2.  While the loop has met no error, every beacon buffer holds one     *)
(* value per record read so far that has a non-empty selected-witness      *)
(* list, and every witness buffer one value per selected or unselected     *)
(* witness of those records; and the two files of a converted source file  *)
(* hold that many rows in each of their 9 and 10 columns.                  *)
(***************************************************************************)
C2_RowCounts ==
    \A i \in Tasks :
        LET pocs == Contributing(stream[i])
        IN  /\ LoopHealthy(i) =>
                 /\ AllLen(vecs[i], BeaconVecs, Len(pocs))
                 /\ AllLen(vecs[i], WitnessVecs, Len(SourceWitnesses(pocs)))
            /\ JustConverted(i) =>
                 /\ FileRows(fs[BeaconPath(file_list[i])], 9, Len(pocs))
                 /\ FileRows(fs[WitnessPath(file_list[i])], 10,
                             Len(SourceWitnesses(pocs)))

\* a converted file of two contributing records and three witnesses, one of
\* them unselected
C2_Witness ==
    \E i \in Tasks :
        /\ JustConverted(i)
        /\ Len(Contributing(stream[i])) = 2
        /\ Len(SourceWitnesses(Contributing(stream[i]))) = 3
        /\ \E n \in 1..Len(stream[i]) :
               stream[i][n].poc.unselected_witnesses # <<>>
        /\ FileRows(fs[BeaconPath(file_list[i])], 9, 2)
        /\ FileRows(fs[WitnessPath(file_list[i])], 10, 3)

(***************************************************************************)
(* C3.  Every row of the witness buffers is one source witness: its        *)
(* selected flag is TRUE exactly when that witness is from a selected-     *)
(* witness list and FALSE exactly when it is from an unselected one, and   *)
(* the other values of row r (poc_id, pub_key, ingest_time, timestamp,     *)
(* tmst, signal, snr, frequency) are that same witness's.  The written     *)
(* file's selected and pub_key columns pair up the same way.  (Every       *)
(* source witness of the model has a pub_key of its own.)                  *)
(***************************************************************************)
SameWitness(v, r, src) ==
    /\ v["witness_poc_id"][r] = src.poc.poc_id
    /\ v["witness_pub_key"][r] = src.w.report.val.pub_key
    /\ v["witness_ingest_time"][r] = src.w.received_timestamp
    /\ v["witness_timestamp"][r] = src.w.report.val.timestamp
    /\ v["witness_tmst"][r] = src.w.report.val.tmst
    /\ v["witness_signal"][r] = src.w.report.val.signal
    /\ v["witness_snr"][r] = src.w.report.val.snr
    /\ v["witness_frequency"][r] = src.w.report.val.frequency

C3_SelectedFlag ==
    \A i \in Tasks :
        LET srcs == SourceWitnesses(Contributing(stream[i]))
            wf   == fs[WitnessPath(file_list[i])]
            Is(r, k) == vecs[i]["witness_pub_key"][r] = srcs[k].w.report.val.pub_key
        IN  /\ LoopHealthy(i) =>
                 /\ AllLen(vecs[i], WitnessVecs, Len(srcs))
                 /\ \A r \in 1..Len(srcs) :
                        /\ \E k \in 1..Len(srcs) : Is(r, k)
                        /\ \A k \in 1..Len(srcs) :
                               Is(r, k) =>
                                 /\ SameWitness(vecs[i], r, srcs[k])
                                 /\ vecs[i]["selected"][r] = TRUE
                                      <=> srcs[k].from = "selected"
                                 /\ vecs[i]["selected"][r] = FALSE
                                      <=> srcs[k].from = "unselected"
            /\ JustConverted(i) =>
                 /\ FileRows(wf, 10, Len(srcs))
                 /\ \A r, k \in 1..Len(srcs) :
                        FileColumn(wf, "pub_key")[r]
                            = srcs[k].w.report.val.pub_key
                          => FileColumn(wf, "selected")[r]
                               = (srcs[k].from = "selected")

\* scenario A of the spec: one record with 2 selected and 1 unselected
\* witnesses gives 3 witness rows flagged TRUE, TRUE, FALSE
C3_Witness ==
    \E i \in Tasks :
        /\ JustConverted(i)
        /\ Len(stream[i]) = 1
        /\ Len(stream[i][1].poc.selected_witnesses) = 2
        /\ Len(stream[i][1].poc.unselected_witnesses) = 1
        /\ vecs[i]["selected"] = <<TRUE, TRUE, FALSE>>
        /\ FileColumn(fs[WitnessPath(file_list[i])], "selected")
             = <<TRUE, TRUE, FALSE>>

(***************************************************************************)
(* C4.  Rows are in the order of the source messages: the beacon rows are  *)
(* the contributing records in message order, and the witness rows are     *)
(* grouped by record in message order, a record's selected witnesses in    *)
(* list order first, then its unselected witnesses in list order.  This    *)
(* holds of the buffers while the loop runs and of the written files.      *)
(***************************************************************************)
C4_RowOrder ==
    \A i \in Tasks :
        LET pocs == Contributing(stream[i])
            srcs == SourceWitnesses(pocs)
            bids == [k \in 1..Len(pocs) |-> pocs[k].poc_id]
            bkeys == [k \in 1..Len(pocs) |->
                        pocs[k].beacon_report.val.report.val.pub_key]
            wids == [r \in 1..Len(srcs) |-> srcs[r].poc.poc_id]
            wkeys == [r \in 1..Len(srcs) |-> srcs[r].w.report.val.pub_key]
            bf == fs[BeaconPath(file_list[i])]
            wf == fs[WitnessPath(file_list[i])]
        IN  /\ LoopHealthy(i) =>
                 /\ vecs[i]["poc_id"] = bids
                 /\ vecs[i]["pub_key"] = bkeys
                 /\ vecs[i]["witness_poc_id"] = wids
                 /\ vecs[i]["witness_pub_key"] = wkeys
            /\ JustConverted(i) =>
                 /\ FileRows(bf, 9, Len(pocs))
                 /\ FileRows(wf, 10, Len(srcs))
                 /\ FileColumn(bf, "poc_id") = bids
                 /\ FileColumn(bf, "pub_key") = bkeys
                 /\ FileColumn(wf, "poc_id") = wids
                 /\ FileColumn(wf, "pub_key") = wkeys

\* two contributing records were converted, the second with a selected and
\* an unselected witness: its rows come after the first record's, the
\* unselected one last
C4_Witness ==
    \E i \in Tasks :
        /\ JustConverted(i)
        /\ Len(stream[i]) = 2
        /\ Len(stream[i][2].poc.selected_witnesses) = 1
        /\ Len(stream[i][2].poc.unselected_witnesses) = 1
        /\ FileColumn(fs[BeaconPath(file_list[i])], "poc_id") = <<1, 2>>
        /\ FileColumn(fs[WitnessPath(file_list[i])], "poc_id") = <<1, 2, 2>>
        /\ FileColumn(fs[WitnessPath(file_list[i])], "selected")
             = <<TRUE, TRUE, FALSE>>

(***************************************************************************)
(* C5.  In a written file the k-th column is the k-th field the schema     *)
(* declares, with that field's type, and its values are the buffer of      *)
(* that same field: for the 9 beacon columns and the 10 witness columns.   *)
(***************************************************************************)
\* the Vec that collects a field, by the code's naming of its Vecs
BufferOf(kind, field) ==
    IF kind = "beacon" THEN field
    ELSE CASE field = "poc_id" -> "witness_poc_id"
           [] field = "pub_key" -> "witness_pub_key"
           [] field = "ingest_time" -> "witness_ingest_time"
           [] field = "witness_location" -> "witness_location"
           [] field = "timestamp" -> "witness_timestamp"
           [] field = "tmst" -> "witness_tmst"
           [] field = "signal" -> "witness_signal"
           [] field = "snr" -> "witness_snr"
           [] field = "frequency" -> "witness_frequency"
           [] field = "selected" -> "selected"

DeclaredBeaconFields ==
    << "poc_id", "ingest_time", "beacon_location", "pub_key", "frequency",
       "channel", "tx_power", "timestamp", "tmst" >>

DeclaredWitnessFields ==
    << "poc_id", "pub_key", "ingest_time", "witness_location", "timestamp",
       "tmst", "signal", "snr", "frequency", "selected" >>

ColumnsAsDeclared(f, schema, declared, kind, v) ==
    /\ f.exists /\ f.closed
    /\ Len(f.cols) = Len(declared)
    /\ \A k \in 1..Len(declared) :
           /\ f.cols[k].name = declared[k]
           /\ f.cols[k].name = schema[k].name
           /\ f.cols[k].type = schema[k].type
           /\ f.cols[k].values = v[BufferOf(kind, declared[k])]

C5_ColumnOrder ==
    \A i \in Tasks :
        JustConverted(i) =>
            /\ ColumnsAsDeclared(fs[BeaconPath(file_list[i])], BEACON_MSG_TYPE,
                                 DeclaredBeaconFields, "beacon", vecs[i])
            /\ ColumnsAsDeclared(fs[WitnessPath(file_list[i])],
                                 WITNESS_MSG_TYPE, DeclaredWitnessFields,
                                 "witness", vecs[i])

\* a written beacon file whose second and third columns, both INT64, hold
\* different values: ingest_time 1001 and beacon_location 631
C5_Witness ==
    \E i \in Tasks :
        LET bf == fs[BeaconPath(file_list[i])]
            wf == fs[WitnessPath(file_list[i])]
        IN  /\ JustConverted(i)
            /\ Len(bf.cols) = 9 /\ Len(wf.cols) = 10
            /\ bf.cols[2].name = "ingest_time" /\ bf.cols[2].values = <<1001>>
            /\ bf.cols[3].name = "beacon_location" /\ bf.cols[3].values = <<631>>
            /\ wf.cols[10].name = "selected" /\ wf.cols[10].values # <<>>

(***************************************************************************)
(* Failing messages.                                                       *)
(***************************************************************************)
ReturnedErr(i) == tpc[i] = "done" /\ tres[i] = "Err"

NothingUploaded(i) ==
    /\ ~s3[ObjectKey("valid_beacon", BeaconPath(file_list[i]))].exists
    /\ ~s3[ObjectKey("valid_witness", WitnessPath(file_list[i]))].exists

\* the loop of task i ran last on a message that is an `is`
ReadLast(i, is) == stream[i] # <<>> /\ Last(stream[i]) \in is

\* the messages a task has read
Read == UNION {Range(stream[i]) : i \in Tasks}

IsUndecodable(msg) == msg.kind \in {"io_err", "garbage"}
Undecodable == {msg \in Read : IsUndecodable(msg)}

HasMissingReport(msg) ==
    /\ IsContributing(msg)
    /\ \/ ~msg.poc.beacon_report.some
       \/ ~msg.poc.beacon_report.val.report.some
       \/ \E w \in Range(msg.poc.selected_witnesses)
                     \cup Range(msg.poc.unselected_witnesses) : ~w.report.some

MissingReport == {msg \in Read : HasMissingReport(msg)}

HasBadBeaconLocation(msg) ==
    /\ IsContributing(msg)
    /\ msg.poc.beacon_report.some
    /\ ~ParseI64(msg.poc.beacon_report.val.location).ok

BadBeaconLocation == {msg \in Read : HasBadBeaconLocation(msg)}

(***************************************************************************)
(* C6.  Once reading or decoding a message of a source file has failed,    *)
(* the file's task has returned an error, neither its beacon nor its       *)
(* witness file exists on the local file system, and no object was         *)
(* uploaded for it.                                                        *)
(***************************************************************************)
C6_DecodeFailureLeavesNothing ==
    \A i \in Tasks :
        ReadLast(i, Undecodable) =>
            /\ ReturnedErr(i)
            /\ ~fs[BeaconPath(file_list[i])].exists
            /\ ~fs[WitnessPath(file_list[i])].exists
            /\ NothingUploaded(i)

(***************************************************************************)
(* C7.  Once the loop has run on a record that has a selected witness and  *)
(* lacks its beacon report, or the report nested in its beacon report or   *)
(* in one of its witness reports, the file's task has returned an error:   *)
(* it has not panicked and it has not gone on.                             *)
(***************************************************************************)
C7_MissingReportIsReturnedError ==
    \A i \in Tasks : ReadLast(i, MissingReport) => ReturnedErr(i)

(***************************************************************************)
(* C8, as claimed.  Once the loop has run on a contributing record whose   *)
(* beacon location is no integer, the task has returned an error, no       *)
(* buffer holds a value of that record, no column of the file was          *)
(* serialized and nothing was uploaded.                                    *)
(***************************************************************************)
NothingSerialized(i) ==
    /\ fs[BeaconPath(file_list[i])] = NewFile
    /\ fs[WitnessPath(file_list[i])] = NewFile

C8_NoValueOfRecordAppended ==
    \A i \in Tasks :
        ReadLast(i, BadBeaconLocation) =>
            LET before == Contributing(Front(stream[i]))
            IN  /\ ReturnedErr(i)
                /\ AllLen(vecs[i], BeaconVecs, Len(before))
                /\ AllLen(vecs[i], WitnessVecs, Len(SourceWitnesses(before)))
                /\ NothingSerialized(i)
                /\ NothingUploaded(i)

(***************************************************************************)
(* C8, amended.  Once the loop has run on a contributing record whose      *)
(* beacon location is no integer, the task has returned an error; of that  *)
(* record the poc_id and the ingest_time were appended to their buffers    *)
(* and nothing else: every other beacon buffer and every witness buffer    *)
(* holds the earlier records' values only; no column of either file was    *)
(* serialized (the two files are as File::create left them) and nothing    *)
(* was uploaded.                                                           *)
(***************************************************************************)
C8_BeaconLocationError ==
    \A i \in Tasks :
        ReadLast(i, BadBeaconLocation) =>
            LET before == Contributing(Front(stream[i]))
                poc    == Last(stream[i]).poc
                early  == {"poc_id", "ingest_time"}
            IN  /\ ReturnedErr(i)
                /\ Len(vecs[i]["poc_id"]) = Len(before) + 1
                /\ Last(vecs[i]["poc_id"]) = poc.poc_id
                /\ Len(vecs[i]["ingest_time"]) = Len(before) + 1
                /\ Last(vecs[i]["ingest_time"])
                     = poc.beacon_report.val.received_timestamp
                /\ \A c \in Range(BeaconVecs) \ early :
                       Len(vecs[i][c]) = Len(before)
                /\ AllLen(vecs[i], WitnessVecs, Len(SourceWitnesses(before)))
                /\ NothingSerialized(i)
                /\ NothingUploaded(i)

\* the second record of a file has a beacon location that is no integer,
\* after a first record that gave one beacon row
C8_Witness ==
    \E i \in Tasks :
        /\ Len(stream[i]) = 2
        /\ IsContributing(stream[i][1])
        /\ HasBadBeaconLocation(stream[i][2])
        /\ stream[i][2].poc.beacon_report.val.report.some
        /\ ReturnedErr(i)
        /\ vecs[i]["poc_id"] = <<1, 2>>
        /\ Len(vecs[i]["beacon_location"]) = 1

(***************************************************************************)
(* C9.  A witness location that is no integer is stored as 0 and is no     *)
(* error: as long as the records read are well formed but for their        *)
(* witness locations, the task has not panicked, every source witness has  *)
(* its complete row, and the row's witness_location is the parsed          *)
(* location, or 0 where the location does not parse.                       *)
(***************************************************************************)
WellFormedButWitnessLocations(msg) ==
    /\ msg.kind = "poc"
    /\ IsContributing(msg) =>
         /\ ~HasMissingReport(msg)
         /\ ~HasBadBeaconLocation(msg)

LocationOrZero(w) ==
    IF ParseI64(w.location).ok THEN ParseI64(w.location).val ELSE 0

C9_WitnessLocationDefault ==
    \A i \in Tasks :
        (\A n \in 1..Len(stream[i]) : WellFormedButWitnessLocations(stream[i][n]))
          => LET srcs == SourceWitnesses(Contributing(stream[i]))
             IN  /\ tpc[i] # "panicked"
                 /\ AllLen(vecs[i], WitnessVecs, Len(srcs))
                 /\ vecs[i]["witness_location"]
                      = [r \in 1..Len(srcs) |-> LocationOrZero(srcs[r].w)]

\* a converted file whose first selected witness and, in the next record,
\* whose unselected witness have locations that are no integers: their
\* rows are there with location 0, and so are the rows after them
C9_Witness ==
    \E i \in Tasks :
        /\ JustConverted(i)
        /\ Len(stream[i]) = 2
        /\ Len(stream[i][1].poc.selected_witnesses) = 1
        /\ ~ParseI64(stream[i][1].poc.selected_witnesses[1].location).ok
        /\ Len(stream[i][2].poc.unselected_witnesses) = 1
        /\ ~ParseI64(stream[i][2].poc.unselected_witnesses[1].location).ok
        /\ vecs[i]["witness_location"] = <<0, 71, 0>>
        /\ FileColumn(fs[WitnessPath(file_list[i])], "witness_location")
             = <<0, 71, 0>>

(***************************************************************************)
(* C10.  At every instant at most LOADER_WORKERS tasks have started and    *)
(* not finished.                                                           *)
(***************************************************************************)
Started(i) == tpc[i] # "idle"
Finished(i) == tpc[i] \in {"done", "panicked"}

C10_AtMostWorkersInFlight ==
    Cardinality({i \in Tasks : Started(i) /\ ~Finished(i)}) <= LOADER_WORKERS

\* LOADER_WORKERS tasks are in flight, at different points, and a listed
\* file is waiting for one of them to finish
C10_Witness ==
    /\ Cardinality({i \in Tasks : Started(i) /\ ~Finished(i)}) = LOADER_WORKERS
    /\ next_file <= Len(file_list)
    /\ \E i, j \in Tasks : tpc[i] = "put_witness" /\ tpc[j] = "next"
    /\ \E i \in Tasks : ~Started(i)
(***************************************************************************)
(* C11.  In a historical run a failure of one file's task, of whatever     *)
(* kind, does not abort the sibling files: every other listed file that    *)
(* is not done yet can still go on -- it can take its own next step, or    *)
(* it waits for a worker slot that is free or that a running task will     *)
(* free.                                                                   *)
(*                                                                         *)
(* Violated: a task that panics on a missing report unwinds                *)
(* handle_history, and no sibling takes a step after that.                 *)
(***************************************************************************)
Failed(i) == (tpc[i] = "done" /\ tres[i] = "Err") \/ tpc[i] = "panicked"
Listed == 1..Len(file_list)

CanGoOn(j) ==
    \/ tpc[j] = "done"
    \/ ENABLED TaskStep(j)
    \/ /\ tpc[j] = "idle"
       /\ \/ ENABLED Dispatch
          \/ \E k \in Listed : ENABLED TaskStep(k)

C11_FailureDoesNotAbortSiblings ==
    mode = "Historical" =>
      \A i \in Listed :
        Failed(i) => \A j \in Listed \ {i} : CanGoOn(j)

(***************************************************************************)
(* C12.  handle_history returns only after every task it dispatched has    *)
(* finished, with success or with failure; and when every step that can    *)
(* be taken is taken in the end, the run ends with no task in flight:      *)
(* the handler has returned, or a panic has unwound it and dropped the     *)
(* tasks in flight with it.                                                *)
(***************************************************************************)
\* the tasks still running: unwinding drops the futures in flight
Running == IF crashed THEN {} ELSE InFlight

Ended == (hpc = "returned" \/ crashed) /\ Running = {}

StoreCauses == {"get", "put_beacon", "put_witness"}

\* this step is the handler's return
Returns == hpc # "returned" /\ hpc' = "returned"

C13_StoreFailurePropagates ==
    [][ /\ Returns
        /\ \/ hpc = "list_all"
           \/ \E i \in Tasks : tcause[i] \in StoreCauses
        => hres' = "Err" ]_vars

(***************************************************************************)
(* C14.  A historical run whose listing succeeded returns success          *)
(* whatever its tasks returned, also when every one of them returned an    *)
(* error.                                                                  *)
(***************************************************************************)
C14_PerFileFailuresSwallowed ==
    [][ Returns /\ hpc = "buffer_unordered" => hres' = "Ok" ]_vars

\* the run returned Ok after each of its tasks, more than one, returned
\* an error
C14_Witness ==
    /\ mode = "Historical" /\ hpc = "returned" /\ hres = "Ok"
    /\ Len(file_list) >= 2
    /\ \A i \in Listed : tpc[i] = "done" /\ tres[i] = "Err"

(***************************************************************************)
(* C15.  No step deletes a local output file whose upload has not          *)
(* succeeded: a file that a step removes is at the destination, under its  *)
(* kind and name and with its content; and a task that ended because the   *)
(* upload of an artifact failed has left that artifact's local file in     *)
(* place.                                                                  *)
(***************************************************************************)
\* the kind of artifact a local path holds, by its name
KindOf(p) == IF p.name[1] = "valid_beacons" THEN "valid_beacon"
             ELSE "valid_witness"

UploadedAs(p, st) ==
    /\ st[[folder |-> KindOf(p), name |-> p.name]].exists
    /\ st[[folder |-> KindOf(p), name |-> p.name]].body = fs[p].cols

C15_NoDeleteWithoutUpload ==
    [][ /\ \A p \in AllPaths :
             fs[p].exists /\ ~fs'[p].exists => UploadedAs(p, s3')
        /\ \A i \in Tasks :
             /\ tcause'[i] = "put_beacon" =>
                  fs'[BeaconPath(file_list[i])].exists
             /\ tcause'[i] = "put_witness" =>
                  fs'[WitnessPath(file_list[i])].exists ]_vars

\* one task has ended on a failed witness upload with both local files in
\* place, another has removed both of its files after both uploads
C15_Witness ==
    \E i, j \in Tasks :
      /\ tpc[i] = "done" /\ tcause[i] = "put_witness"
      /\ fs[BeaconPath(file_list[i])].exists
      /\ fs[WitnessPath(file_list[i])].exists
      /\ tpc[j] = "done" /\ tres[j] = "Ok"
      /\ ~fs[BeaconPath(file_list[j])].exists
      /\ ~fs[WitnessPath(file_list[j])].exists

(***************************************************************************)
(* C16.  An artifact whose upload succeeded has its local file deleted by  *)
(* the time the file's pipeline ends, whatever happened to the other       *)
(* artifact.                                                               *)
(*                                                                         *)
(* Violated: cleanup runs only after both uploads, and removes the         *)
(* witness file only after the beacon file.                                *)
(***************************************************************************)
C16_UploadedFileIsDeleted ==
    \A i \in Tasks :
      tpc[i] = "done" =>
        \A p \in {BeaconPath(file_list[i]), WitnessPath(file_list[i])} :
          s3[[folder |-> KindOf(p), name |-> p.name]].exists => ~fs[p].exists

(***************************************************************************)
(* C17.  Every object at the destination is the beacon file of a task      *)
(* under valid_beacon/<the file's name>, or the witness file of a task     *)
(* under valid_witness/<the file's name>, put by that task's upload; no    *)
(* other key holds an object; and a task whose upload step succeeded has   *)
(* its object there.                                                       *)
(***************************************************************************)
BeaconUploaded(i) ==
    \/ tpc[i] = "put_witness"
    \/ tpc[i] = "done" /\ tcause[i] \in {"none", "cleanup", "put_witness"}

WitnessUploaded(i) ==
    tpc[i] = "done" /\ tcause[i] \in {"none", "cleanup"}

C17_ObjectKeys ==
    /\ \A k \in DOMAIN s3 :
         s3[k].exists <=>
           \E i \in Listed :
             \/ /\ BeaconUploaded(i)
                /\ k = [folder |-> "valid_beacon",
                        name |-> BeaconPath(file_list[i]).name]
             \/ /\ WitnessUploaded(i)
                /\ k = [folder |-> "valid_witness",
                        name |-> WitnessPath(file_list[i]).name]
    /\ \A k \in DOMAIN s3 :
         s3[k].exists =>
           k.name[1] = (IF k.folder = "valid_beacon" THEN "valid_beacons"
                        ELSE "valid_witnesses")

\* both objects of one file are at the destination, the beacon object of
\* another, and the two files have different names
C17_Witness ==
    \E i, j \in Listed :
      /\ i # j
      /\ WitnessUploaded(i) /\ BeaconUploaded(j) /\ ~WitnessUploaded(j)
      /\ s3[[folder |-> "valid_beacon",
             name |-> <<"valid_beacons", file_list[i][2], "parquet">>]].exists
      /\ s3[[folder |-> "valid_witness",
             name |-> <<"valid_witnesses", file_list[i][2], "parquet">>]].exists
      /\ s3[[folder |-> "valid_beacon",
             name |-> <<"valid_beacons", file_list[j][2], "parquet">>]].exists

(***************************************************************************)
(* C18.  A historical run starts one task per listed file, in the order    *)
(* of the listing and each once, and none for anything else; it returns    *)
(* after a task for every listed file; and when every task of a run over   *)
(* N files returned Ok, the destination holds exactly 2N objects, a        *)
(* beacon and a witness object of every listed file.                       *)
(***************************************************************************)
Objects == {k \in DOMAIN s3 : s3[k].exists}

C18_OneTaskPerFile ==
    mode = "Historical" =>
      /\ {i \in Tasks : Started(i)} = 1..(next_file - 1)
      /\ next_file - 1 <= Len(file_list)
      /\ hpc = "returned" /\ hres = "Ok" =>
           /\ next_file - 1 = Len(file_list)
           /\ (\A i \in Listed : tres[i] = "Ok") =>
                /\ Cardinality(Objects) = 2 * Len(file_list)
                /\ \A i \in Listed :
                     /\ [folder |-> "valid_beacon",
                         name |-> BeaconPath(file_list[i]).name] \in Objects
                     /\ [folder |-> "valid_witness",
                         name |-> WitnessPath(file_list[i]).name] \in Objects

\* a run over three files has returned, every task with Ok, and six
\* objects are at the destination
C18_Witness ==
    /\ mode = "Historical" /\ hpc = "returned"
    /\ Len(file_list) = 3
    /\ \A i \in Listed : tres[i] = "Ok"
    /\ Cardinality(Objects) = 6

(***************************************************************************)
(* C19.  In the trigger path, when the part of the first record's object   *)
(* key before the first '.' is not iot_poc, handle_current returns         *)
(* success and has done nothing: no get, no local file, no object.         *)
(*                                                                         *)
(* Violated: FileType::from_str(prefix)? returns an error for a prefix     *)
(* that names no file type.                                                *)
(***************************************************************************)
\* the event has a first record whose object key is a string
HasKey(e) == ~e.records_null /\ e.Records # <<>> /\ ~RecordKey(e).is_null

\* the key's tokens between its '.'s, as the event holds it
KeyOf(e) == RecordKey(e).tokens

NothingDone ==
    /\ \A i \in Tasks : tpc[i] = "idle"
    /\ \A p \in AllPaths : ~fs[p].exists
    /\ Objects = {}

C19_NonTargetTypeIsNoOp ==
    /\ mode = "Current" /\ hpc = "returned"
    /\ event.some /\ HasKey(event.val)
    /\ Head(KeyOf(event.val)) # "iot_poc"
    => hres = "Ok" /\ NothingDone

(***************************************************************************)
(* C20.  For a trigger event whose first record's object key is            *)
(* iot_poc.<timestamp>.<ext>, handle_current runs the steps of a           *)
(* historical task on that key: it does not return before it has got the   *)
(* key from the store, and it returns success only with both objects put   *)
(* under the names stamped <timestamp> and both local files removed.       *)
(*                                                                         *)
(* Violated: handle_current returns an error before the get.               *)
(***************************************************************************)
IsPocKey(k) == Len(k) = 3 /\ k[1] = "iot_poc"

C20_TriggerRunsPerFilePath ==
    /\ mode = "Current" /\ hpc = "returned"
    /\ event.some /\ HasKey(event.val)
    /\ IsPocKey(KeyOf(event.val))
    => /\ tpc[1] = "done"
       /\ hres = tres[1]
       /\ hres = "Ok" =>
            /\ [folder |-> "valid_beacon",
                name |-> <<"valid_beacons", KeyOf(event.val)[2], "parquet">>]
                 \in Objects
            /\ [folder |-> "valid_witness",
                name |-> <<"valid_witnesses", KeyOf(event.val)[2], "parquet">>]
                 \in Objects
            /\ \A p \in AllPaths : ~fs[p].exists

(***************************************************************************)
(* C21.  For an event without a first record -- Records missing, null or   *)
(* an empty list -- handle_current returns the error of its validation     *)
(* of the event, and has fetched, converted and uploaded nothing.          *)
(*                                                                         *)
(* Violated: the validation lets an empty list pass; the error then comes  *)
(* from the file type of the key of a record that is not there.            *)
(***************************************************************************)
\* e["Records"] is null (missing or null) or holds no record
NoRecord(e) == e.records_null \/ e.Records = <<>>

C21_NoRecordIsValidationError ==
    /\ mode = "Current" /\ hpc = "returned"
    /\ event.some /\ NoRecord(event.val)
    => /\ hres = "Err" /\ herr.kind = "validation"
       /\ NothingDone

(***************************************************************************)
(* C22.  handle_current reads Records[0] only: when it acts on an event,   *)
(* it would act alike on every event with an equal first record, whatever  *)
(* that event carries from index 1 on -- the key it takes from the event   *)
(* and what it decides on it are the same, and so are the result, the      *)
(* error and what has been fetched, written and uploaded.                  *)
(***************************************************************************)
SameFirstRecord(e, f) ==
    /\ ~e.records_null /\ ~f.records_null
    /\ e.Records # <<>> /\ f.Records # <<>>
    /\ e.Records[1] = f.Records[1]

\* the events that differ from e at most from index 1 on
Twins(e) == {f \in Events : f.some /\ SameFirstRecord(e.val, f.val)}

\* the key handle_current goes on with (handler.rs:147)
KeyRead(e) == ValueToString(RecordKey(e))

C22_OnlyFirstRecordRead ==
    [][ hpc = "handle_current" /\ (hpc' # hpc \/ crashed') =>
          \A f \in Twins(event) :
            /\ KeyRead(f.val) = KeyRead(event.val)
            /\ Decide(f.val) = Decide(event.val)
            /\ Decide(f.val).step = "err" =>
                 /\ hres' = "Err" /\ herr'.kind = Decide(f.val).cause
                 /\ NothingDone'
            /\ Decide(f.val).step = "no_op" => hres' = "Ok" /\ NothingDone'
            /\ Decide(f.val).step = "convert" /\ hpc' = "current_task" =>
                 file_list' = <<KeyRead(f.val)>> ]_vars

\* handle_current has returned on an event of two records with different
\* keys, the first of them iot_poc.1.gz
C22_Witness ==
    /\ mode = "Current" /\ hpc = "returned" /\ event.some
    /\ Len(event.val.Records) = 2
    /\ event.val.Records[1].key = JsonString(<<"iot_poc", "1", "gz">>)
    /\ event.val.Records[2].key # event.val.Records[1].key
    /\ Cardinality(Twins(event)) > 2

(***************************************************************************)
(* C23.  In the trigger path every error ends the invocation and reaches   *)
(* the caller: when the event is absent or a step of handle_current has    *)
(* failed, Handler::run and handler_fn return an error; success is         *)
(* returned only when nothing failed; a failure before the get leaves      *)
(* nothing fetched, written or uploaded; and once run has returned, no     *)
(* step of the pipeline is taken any more.                                 *)
(***************************************************************************)
\* something of the invocation has failed
TriggerFailure ==
    \/ ~event.some
    \/ event.some /\ Decide(event.val).step = "err"
    \/ herr # NoError
    \/ \E i \in Tasks : tcause[i] # "none"

C23_TriggerErrorsAreFatal ==
    mode = "Current" /\ hpc = "returned" =>
      /\ TriggerFailure => hres = "Err" /\ HandlerFn(hres) = "Err"
      /\ hres = "Ok" => ~TriggerFailure
      /\ herr.kind \in {"no_event", "validation", "file_type", "from_settings"}
           => NothingDone
      /\ ~ENABLED Next

\* run has returned the validation's error on an event whose Records are
\* null, and nothing was done
C23_Witness ==
    /\ mode = "Current" /\ hpc = "returned"
    /\ event.some /\ event.val.records_null
    /\ hres = "Err" /\ herr.kind = "validation"
    /\ HandlerFn(hres) = "Err"
    /\ NothingDone

(***************************************************************************)
(* C24.  Converting the same source file a second time uses the same two   *)
(* local names, made of the output kind and the key's stamp only, and      *)
(* leaves under them files equal to those of the first conversion, in row  *)
(* counts and in column contents: a file the first run left in place is    *)
(* overwritten by an equal one, and a file the first run uploaded and      *)
(* removed comes back with the content that was uploaded.  (Conversions    *)
(* in which the store or the file system failed are left aside.)           *)
(***************************************************************************)
\* no call to the store or the file system failed while task i converted
ConvertedUndisturbed(i) == tcause[i] \notin {"get", "create", "write"}

C24_ConversionIdempotent ==
    [][ \A i \in Tasks :
          tpc[i] # "again" /\ tpc'[i] = "again" /\ ConvertedUndisturbed(i) =>
            LET stamp == file_list[i][2]
                b == [dir |-> "cache",
                      name |-> <<"valid_beacons", stamp, "parquet">>]
                w == [dir |-> "cache",
                      name |-> <<"valid_witnesses", stamp, "parquet">>]
            IN  /\ {p \in AllPaths : fs'[p].exists}
                     = {b, w} \cup {p \in AllPaths : fs[p].exists}
                /\ \A p \in {b, w} :
                     /\ fs[p].exists => fs'[p] = fs[p]
                     /\ s3[[folder |-> KindOf(p), name |-> p.name]].exists =>
                          fs'[p].cols =
                            s3[[folder |-> KindOf(p), name |-> p.name]].body
          ]_vars

\* a file with rows was converted, uploaded and removed, and its second
\* conversion has put back both files as they were uploaded
C24_Witness ==
    \E i \in Tasks :
      LET bp == BeaconPath(file_list[i])
          wp == WitnessPath(file_list[i])
      IN  /\ tpc[i] = "again" /\ tres[i] = "Ok"
          /\ fs[bp].exists /\ fs[wp].exists
          /\ fs[bp].cols = s3[[folder |-> "valid_beacon", name |-> bp.name]].body
          /\ fs[wp].cols = s3[[folder |-> "valid_witness", name |-> wp.name]].body
          /\ Len(fs[bp].cols[1].values) >= 1
          /\ Len(fs[wp].cols[1].values) >= 2

(***************************************************************************)
(* C25 as claimed.  Any two distinct listed keys have different beacon     *)
(* paths and different witness paths, so that no two tasks that run at     *)
(* the same time work on the same local path.                              *)
(*                                                                         *)
(* Violated by two listed keys that have the same stamp.                   *)
(***************************************************************************)
AtWork(i) == Started(i) /\ ~Finished(i)

Steps(i) == tpc'[i] # tpc[i] \/ stream'[i] # stream[i]

TaskError(i) == AnyhowError(tcause[i])

C26_ErrorsNameKeyAndKind ==
    /\ \A i \in Listed :
         tpc[i] = "done" /\ tres[i] = "Err" =>
           /\ TaskError(i).kind # "none"
           /\ TaskError(i).key = Some(file_list[i])
    /\ /\ mode = "Current" /\ hpc = "returned" /\ hres = "Err"
       /\ event.some /\ HasKey(event.val)
       => /\ herr.kind # "none"
          /\ herr.key = Some(KeyOf(event.val))

(***************************************************************************)
(* C27.  The steps of a file's pipeline come in order and each only after  *)
(* the one before it succeeded: the beacon object is put only when both    *)
(* files are written in full and closed, the witness object only when the  *)
(* beacon object is there, a local file is removed only when both objects  *)
(* are there; a task whose conversion failed has no object, and no         *)
(* witness object is there without the beacon object of the same file.     *)
(***************************************************************************)
ConversionCauses ==
    {"get", "create", "read", "decode", "location", "missing_field", "write"}

C27_StepsInOrder ==
    [][ \A i \in Listed :
          LET bp == BeaconPath(file_list[i])
              wp == WitnessPath(file_list[i])
              bo == [folder |-> "valid_beacon", name |-> bp.name]
              wo == [folder |-> "valid_witness", name |-> wp.name]
          IN  /\ ~s3[bo].exists /\ s3'[bo].exists =>
                   /\ fs[bp].closed /\ fs[wp].closed
                   /\ Len(fs[bp].cols) = Len(BEACON_MSG_TYPE)
                   /\ Len(fs[wp].cols) = Len(WITNESS_MSG_TYPE)
                   /\ ~s3[wo].exists
              /\ ~s3[wo].exists /\ s3'[wo].exists =>
                   s3[bo].exists /\ s3[bo].body = fs[bp].cols
              /\ \A p \in {bp, wp} :
                   fs[p].exists /\ ~fs'[p].exists =>
                     s3'[bo].exists /\ s3'[wo].exists
              /\ tcause'[i] \in ConversionCauses =>
                   ~s3'[bo].exists /\ ~s3'[wo].exists
              /\ s3'[wo].exists => s3'[bo].exists ]_vars

\* one task has put both objects and removed both files, another has
\* failed in its conversion and has no object
C27_Witness ==
    \E i, j \in Listed :
      /\ tpc[i] = "done" /\ tres[i] = "Ok"
      /\ s3[[folder |-> "valid_beacon",
             name |-> BeaconPath(file_list[i]).name]].exists
      /\ s3[[folder |-> "valid_witness",
             name |-> WitnessPath(file_list[i]).name]].exists
      /\ ~fs[BeaconPath(file_list[i])].exists
      /\ ~fs[WitnessPath(file_list[i])].exists
      /\ tpc[j] = "done" /\ tcause[j] \in ConversionCauses
      /\ ~s3[[folder |-> "valid_beacon",
              name |-> BeaconPath(file_list[j]).name]].exists

==========================================================================
